---- MODULE Spec2Model ----
(***************************************************************************)
(* UiPath JSON formatter (src/app.py).                                     *)
(*                                                                         *)
(* A text is a sequence of one-character strings.  The regular expressions *)
(* of the source are compiled by hand into sequences of nodes and run by a *)
(* backtracking matcher with Python's priorities (greedy repetition first, *)
(* leftmost match, non-overlapping scan), so that re.sub and re.findall    *)
(* are computed the way the re module computes them.                       *)
(***************************************************************************)
EXTENDS Integers, Sequences, FiniteSets, TLC

VARIABLES
    input_text,       \* the text area's content (input_json / input_text)
    pc,               \* position in the button handler / format_for_uipath
    normalized_text,  \* format_for_uipath: normalized_text
    variables,        \* format_for_uipath: variables (the list re.findall returns)
    pending,          \* the names of set(variables) the for loop has not visited yet
    result,           \* format_for_uipath: result
    shown,            \* what the right column displays
    detected          \* the names listed by "Detected variables: ..."

vars == <<input_text, pc, normalized_text, variables, pending, result, shown, detected>>

-----------------------------------------------------------------------------
(* Characters *)

QUOTE == "\""

Lower == {"a","b","c","d","e","f","g","h","i","j","k","l","m",
          "n","o","p","q","r","s","t","u","v","w","x","y","z"}
Upper == {"A","B","C","D","E","F","G","H","I","J","K","L","M",
          "N","O","P","Q","R","S","T","U","V","W","X","Y","Z"}
Digit == {"0","1","2","3","4","5","6","7","8","9"}

\* \s of a str pattern, and the characters str.strip() removes
WhiteSpace == {" ", "\t", "\n", "\r", "\f"}

\* [A-Za-z_]
IdentStart == Lower \cup Upper \cup {"_"}
\* [A-Za-z0-9_]
IdentChar == Lower \cup Upper \cup Digit \cup {"_"}
\* [A-Za-z0-9_().]
SuffixChar == IdentChar \cup {"(", ")", "."}
\* [,}\]]
Terminator == {",", "}", "]"}

-----------------------------------------------------------------------------
(* Compiled patterns: a pattern is a sequence of nodes *)

Chr(S) == [k |-> "set", s |-> S]          \* one character of the class S
Star(body) == [k |-> "star", r |-> body]    \* (?:body)*  greedy
Ahead(S) == [k |-> "ahead", s |-> S]        \* (?=[S])
Opt(body) == [k |-> "opt", r |-> body]      \* (?:body)?  greedy
AtEnd == [k |-> "end"]                      \* \Z
Open(g) == [k |-> "open", g |-> g]          \* ( of group g
Close(g) == [k |-> "close", g |-> g]        \* ) of group g

\* the pattern matching exactly the text s (what re.escape(s) compiles to)
Literal(s) == [i \in 1..Len(s) |-> Chr({s[i]})]

NoCaps == <<<<0, 0>>, <<0, 0>>>>
Fail == [ok |-> FALSE, end |-> 0, caps |-> NoCaps]

\* The backtracking matcher: the first way, in Python's priority order, to
\* match the nodes rs against t from position i; end is the position after
\* the match, caps the <<start, end>> of groups 1 and 2.
RECURSIVE Run(_, _, _, _)
Run(rs, t, i, caps) ==
    IF Len(rs) = 0 THEN [ok |-> TRUE, end |-> i, caps |-> caps]
    ELSE LET r == Head(rs)
             rest == Tail(rs)
         IN CASE r.k = "set" ->
                    IF i <= Len(t) /\ t[i] \in r.s
                    THEN Run(rest, t, i + 1, caps) ELSE Fail
              [] r.k = "ahead" ->
                    IF i <= Len(t) /\ t[i] \in r.s
                    THEN Run(rest, t, i, caps) ELSE Fail
              [] r.k = "open" ->
                    Run(rest, t, i, [caps EXCEPT ![r.g] = <<i, i>>])
              [] r.k = "close" ->
                    Run(rest, t, i, [caps EXCEPT ![r.g] = <<caps[r.g][1], i>>])
              [] r.k = "end" ->
                    IF i = Len(t) + 1 THEN Run(rest, t, i, caps) ELSE Fail
              [] r.k = "star" ->
                    LET more == Run(r.r \o <<r>> \o rest, t, i, caps)
                    IN IF more.ok THEN more ELSE Run(rest, t, i, caps)
              [] r.k = "opt" ->
                    LET with == Run(r.r \o rest, t, i, caps)
                    IN IF with.ok THEN with ELSE Run(rest, t, i, caps)

Slice(t, from, to) == SubSeq(t, from, to - 1)
Group(t, caps, g) == Slice(t, caps[g][1], caps[g][2])

\* A replacement template is a sequence of items: [lit |-> text] or [grp |-> g]
Lit(s) == [lit |-> s]
Grp(g) == [grp |-> g]

RECURSIVE Expand(_, _, _)
Expand(tmpl, t, caps) ==
    IF Len(tmpl) = 0 THEN <<>>
    ELSE LET x == Head(tmpl)
         IN (IF "lit" \in DOMAIN x THEN x.lit ELSE Group(t, caps, x.grp))
            \o Expand(Tail(tmpl), t, caps)

\* re.sub(pattern, replacement, t), scanning from position i.  No pattern of
\* the source matches the empty string.
RECURSIVE SubFrom(_, _, _, _)
SubFrom(rs, tmpl, t, i) ==
    IF i > Len(t) THEN <<>>
    ELSE LET m == Run(rs, t, i, NoCaps)
         IN IF m.ok
            THEN Expand(tmpl, t, m.caps) \o SubFrom(rs, tmpl, t, m.end)
            ELSE <<t[i]>> \o SubFrom(rs, tmpl, t, i + 1)

Sub(rs, tmpl, t) == SubFrom(rs, tmpl, t, 1)

\* the matches re.findall and re.sub visit in t from position i: leftmost
\* first, the scan resuming where a match ended
RECURSIVE Matches(_, _, _)
Matches(rs, t, i) ==
    IF i > Len(t) THEN <<>>
    ELSE LET m == Run(rs, t, i, NoCaps)
         IN IF m.ok
            THEN <<[start |-> i, end |-> m.end, caps |-> m.caps]>> \o Matches(rs, t, m.end)
            ELSE Matches(rs, t, i + 1)

\* re.findall(pattern, t) of a pattern with one group: the list of group 1
FindAll(rs, t) ==
    LET ms == Matches(rs, t, 1)
    IN [n \in 1..Len(ms) |-> Group(t, ms[n].caps, 1)]

\* set(list)
ToSet(list) == {list[i] : i \in 1..Len(list)}

-----------------------------------------------------------------------------
(* format_for_uipath *)

\* str.strip()
RECURSIVE LStrip(_)
LStrip(t) == IF Len(t) > 0 /\ Head(t) \in WhiteSpace THEN LStrip(Tail(t)) ELSE t
RECURSIVE RStrip(_)
RStrip(t) ==
    IF Len(t) > 0 /\ t[Len(t)] \in WhiteSpace
    THEN RStrip(SubSeq(t, 1, Len(t) - 1)) ELSE t
Strip(t) == RStrip(LStrip(t))

\* r'\s+'
WsRun == <<Chr(WhiteSpace), Star(<<Chr(WhiteSpace)>>)>>

\* re.sub(r'\s+', ' ', input_text.strip())
Normalize(t) == Sub(WsRun, <<Lit(<<" ">>)>>, Strip(t))

\* r':\s*([A-Za-z_][A-Za-z0-9_]*(?:\.[A-Za-z0-9_().]+)*)\s*(?=[,}\]])'
variable_pattern ==
    <<Chr({":"}), Star(<<Chr(WhiteSpace)>>),
      Open(1),
        Chr(IdentStart), Star(<<Chr(IdentChar)>>),
        Star(<<Chr({"."}), Chr(SuffixChar), Star(<<Chr(SuffixChar)>>)>>),
      Close(1),
      Star(<<Chr(WhiteSpace)>>), Ahead(Terminator)>>

\* the name looked for anywhere, without its colon and terminator: what the
\* loop would match had the pattern been re.escape(var) alone
VarWithoutContext(var) ==
    <<Open(1), Close(1)>> \o Literal(var) \o <<Open(2), Close(2)>>

\* f'(:\\s*){re.escape(var)}(\\s*[,}}\\]])'
VarInContext(var) ==
    <<Open(1), Chr({":"}), Star(<<Chr(WhiteSpace)>>), Close(1)>>
    \o Literal(var)
    \o <<Open(2), Star(<<Chr(WhiteSpace)>>), Chr(Terminator), Close(2)>>

\* f'\\1" + {var} + "\\2'
Replacement(var) ==
    <<Grp(1), Lit(<<QUOTE, " ", "+", " ">>), Lit(var), Lit(<<" ", "+", " ", QUOTE>>), Grp(2)>>

\* one iteration of the for loop
SubstituteVar(var, t) == Sub(VarInContext(var), Replacement(var), t)

\* r'"\s*\+\s*"'
EmptyConcat ==
    <<Chr({QUOTE}), Star(<<Chr(WhiteSpace)>>), Chr({"+"}),
      Star(<<Chr(WhiteSpace)>>), Chr({QUOTE})>>

\* r'\+\s*""\s*\+'
EmptyStringConcat ==
    <<Chr({"+"}), Star(<<Chr(WhiteSpace)>>), Chr({QUOTE}), Chr({QUOTE}),
      Star(<<Chr(WhiteSpace)>>), Chr({"+"})>>

\* the two substitutions under "Handle edge cases where we might have empty strings"
RemoveEmpty(t) ==
    Sub(EmptyStringConcat, <<Lit(<<" ", "+", " ">>)>>, Sub(EmptyConcat, <<>>, t))

\* result.replace('"', '""')
RECURSIVE DoubleQuotes(_)
DoubleQuotes(t) ==
    IF Len(t) = 0 THEN <<>>
    ELSE (IF Head(t) = QUOTE THEN <<QUOTE, QUOTE>> ELSE <<Head(t)>>)
         \o DoubleQuotes(Tail(t))

\* '"' + result + '"'
Wrap(t) == <<QUOTE>> \o t \o <<QUOTE>>

\* r'""""\s*\+\s*'
FourQuotesPlus ==
    <<Chr({QUOTE}), Chr({QUOTE}), Chr({QUOTE}), Chr({QUOTE}),
      Star(<<Chr(WhiteSpace)>>), Chr({"+"}), Star(<<Chr(WhiteSpace)>>)>>

\* r'\+\s*""""'
PlusFourQuotes ==
    <<Chr({"+"}), Star(<<Chr(WhiteSpace)>>),
      Chr({QUOTE}), Chr({QUOTE}), Chr({QUOTE}), Chr({QUOTE})>>

\* the cleanup had it left a single quote on the literal's side of the plus
CleanMalformedOneQuote(t) ==
    Sub(PlusFourQuotes, <<Lit(<<" ", "+", " ", QUOTE>>)>>,
        Sub(FourQuotesPlus, <<Lit(<<QUOTE, " ", "+", " ">>)>>, t))

\* the two substitutions under "Clean up any malformed concatenations"
CleanMalformed(t) ==
    Sub(PlusFourQuotes, <<Lit(<<" ", "+", " ", QUOTE, QUOTE>>)>>,
        Sub(FourQuotesPlus, <<Lit(<<QUOTE, QUOTE, " ", "+", " ">>)>>, t))

\* from "Double all remaining quotes" to the return
EscapeWrapClean(t) == CleanMalformed(Wrap(DoubleQuotes(t)))

-----------------------------------------------------------------------------
(* validate_json_structure *)

\* json.decoder.WHITESPACE: [ \t\n\r]*
JsonWs == {" ", "\t", "\n", "\r"}
RECURSIVE SkipWs(_, _)
SkipWs(t, i) == IF i <= Len(t) /\ t[i] \in JsonWs THEN SkipWs(t, i + 1) ELSE i

\* json.scanner.NUMBER_RE: (-?(?:0|[1-9][0-9]*))(\.[0-9]+)?([eE][-+]?[0-9]+)?
\* with its leading alternative split in two, the 0 branch first
NumberZero ==
    <<Opt(<<Chr({"-"})>>), Chr({"0"}),
      Opt(<<Chr({"."}), Chr(Digit), Star(<<Chr(Digit)>>)>>),
      Opt(<<Chr({"e", "E"}), Opt(<<Chr({"-", "+"})>>), Chr(Digit), Star(<<Chr(Digit)>>)>>)>>
NumberNonZero ==
    <<Opt(<<Chr({"-"})>>), Chr(Digit \ {"0"}), Star(<<Chr(Digit)>>),
      Opt(<<Chr({"."}), Chr(Digit), Star(<<Chr(Digit)>>)>>),
      Opt(<<Chr({"e", "E"}), Opt(<<Chr({"-", "+"})>>), Chr(Digit), Star(<<Chr(Digit)>>)>>)>>

\* whether the text w stands in t at position i
StartsWith(t, i, w) == i + Len(w) - 1 <= Len(t) /\ SubSeq(t, i, i + Len(w) - 1) = w

HexDigit == Digit \cup {"a","b","c","d","e","f","A","B","C","D","E","F"}
\* the characters a strict string may not hold unescaped (below U+0020)
Control == {"\t", "\n", "\r", "\f"}

\* json.decoder.scanstring, strict: i is the position after the opening quote;
\* the position after the closing quote, 0 for a JSONDecodeError
RECURSIVE ScanString(_, _)
ScanString(t, i) ==
    IF i > Len(t) THEN 0
    ELSE IF t[i] = QUOTE THEN i + 1
    ELSE IF t[i] \in Control THEN 0
    ELSE IF t[i] = "\\"
         THEN IF i + 1 > Len(t) THEN 0
              ELSE IF t[i + 1] = "u"
                   THEN IF i + 5 <= Len(t) /\ \A j \in (i + 2)..(i + 5) : t[j] \in HexDigit
                        THEN ScanString(t, i + 6) ELSE 0
                   ELSE IF t[i + 1] \in {QUOTE, "\\", "/", "b", "f", "n", "r", "t"}
                        THEN ScanString(t, i + 2) ELSE 0
    ELSE ScanString(t, i + 1)

\* json.scanner.py_make_scanner._scan_once, json.decoder.JSONObject and
\* JSONArray: the position after the value that starts at i, 0 for a
\* JSONDecodeError
RECURSIVE ScanOnce(_, _)
RECURSIVE ObjectPairs(_, _)
RECURSIVE ArrayItems(_, _)

\* i is where a key must start
ObjectPairs(t, i) ==
    IF i > Len(t) \/ t[i] # QUOTE THEN 0
    ELSE LET k == ScanString(t, i + 1)
             c == SkipWs(t, k)
         IN IF k = 0 \/ c > Len(t) \/ t[c] # ":" THEN 0
            ELSE LET v == ScanOnce(t, SkipWs(t, c + 1))
                     d == SkipWs(t, v)
                 IN IF v = 0 \/ d > Len(t) THEN 0
                    ELSE IF t[d] = "}" THEN d + 1
                    ELSE IF t[d] = "," THEN ObjectPairs(t, SkipWs(t, d + 1))
                    ELSE 0

\* i is where an item must start
ArrayItems(t, i) ==
    LET v == ScanOnce(t, i)
        d == SkipWs(t, v)
    IN IF v = 0 \/ d > Len(t) THEN 0
       ELSE IF t[d] = "]" THEN d + 1
       ELSE IF t[d] = "," THEN ArrayItems(t, SkipWs(t, d + 1))
       ELSE 0

ScanOnce(t, i) ==
    IF i > Len(t) THEN 0
    ELSE IF t[i] = QUOTE THEN ScanString(t, i + 1)
    ELSE IF t[i] = "{"
         THEN LET j == SkipWs(t, i + 1)
              IN IF j <= Len(t) /\ t[j] = "}" THEN j + 1 ELSE ObjectPairs(t, j)
    ELSE IF t[i] = "["
         THEN LET j == SkipWs(t, i + 1)
              IN IF j <= Len(t) /\ t[j] = "]" THEN j + 1 ELSE ArrayItems(t, j)
    ELSE IF StartsWith(t, i, <<"n","u","l","l">>) THEN i + 4
    ELSE IF StartsWith(t, i, <<"t","r","u","e">>) THEN i + 4
    ELSE IF StartsWith(t, i, <<"f","a","l","s","e">>) THEN i + 5
    ELSE IF Run(NumberZero, t, i, NoCaps).ok THEN Run(NumberZero, t, i, NoCaps).end
    ELSE IF Run(NumberNonZero, t, i, NoCaps).ok THEN Run(NumberNonZero, t, i, NoCaps).end
    ELSE IF StartsWith(t, i, <<"N","a","N">>) THEN i + 3
    ELSE IF StartsWith(t, i, <<"I","n","f","i","n","i","t","y">>) THEN i + 8
    ELSE IF StartsWith(t, i, <<"-","I","n","f","i","n","i","t","y">>) THEN i + 9
    ELSE 0

\* json.loads(t) returns (JSONDecoder.decode: one value between whitespace,
\* no extra data) rather than raising JSONDecodeError
JsonLoads(t) ==
    LET v == ScanOnce(t, SkipWs(t, 1))
    IN v # 0 /\ SkipWs(t, v) = Len(t) + 1

\* c in t
In(c, t) == \E i \in 1..Len(t) : t[i] = c

\* is_valid of validate_json_structure(input_text)
validate_json_structure(t) ==
    IF JsonLoads(t) THEN TRUE
    ELSE In("{", t) /\ In("}", t)

-----------------------------------------------------------------------------
(* The texts the model is run on *)

\* every concatenation of at most n pieces of the set L
RECURSIVE Concats(_, _)
Concats(L, n) ==
    IF n = 0 THEN {<<>>}
    ELSE {<<>>} \cup {p \o s : p \in L, s \in Concats(L, n - 1)}

MaxFormatLen == 5
MaxDetectPieces == 5
MaxOrderPieces == 6
MaxButtonPieces == 5

\* format_for_uipath, character by character: a value slot, quotes, a
\* concatenation and whitespace
FormatChars == {<<":">>, <<"a">>, <<",">>, <<QUOTE>>, <<"+">>, <<" ">>}

\* what the variable pattern detects: dotted and called names, the JSON
\* keywords, numbers, and a quoted plus sign
DetectPieces ==
    {<<":">>, <<"a">>, <<".">>, <<"(">>, <<",">>, <<"1">>,
     <<"t","r","u","e">>, <<QUOTE, "+", QUOTE>>}

\* several names in several slots, one name inside another
OrderPieces == {<<":", "a">>, <<":", "b">>, <<"a">>, <<",">>}

\* what the button handler is pressed on: objects, arrays, a string, a
\* number, a name
ButtonPieces ==
    {<<"{">>, <<"}">>, <<"[">>, <<"]">>, <<QUOTE, "k", QUOTE>>, <<":">>,
     <<"1">>, <<"a">>, <<" ">>}

-----------------------------------------------------------------------------
(* format_for_uipath, step by step *)

Start(inputs, at) ==
    /\ input_text \in inputs
    /\ pc = at
    /\ normalized_text = <<>>
    /\ variables = <<>>
    /\ pending = {}
    /\ result = <<>>
    /\ shown = "example"
    /\ detected = {}

\* normalize, find the variables, result = normalized_text
Detect ==
    /\ pc = "called"
    /\ normalized_text' = Normalize(input_text)
    /\ variables' = FindAll(variable_pattern, normalized_text')
    /\ pending' = ToSet(variables')
    /\ result' = normalized_text'
    /\ pc' = "loop"
    /\ UNCHANGED <<input_text, shown, detected>>

\* for var in set(variables): the set's iteration order is not specified
Substitute ==
    /\ pc = "loop"
    /\ \E var \in pending :
          /\ result' = SubstituteVar(var, result)
          /\ pending' = pending \ {var}
    /\ UNCHANGED <<input_text, pc, normalized_text, variables, shown, detected>>

\* the loop is over: "Handle edge cases where we might have empty strings"
HandleEmpty ==
    /\ pc = "loop"
    /\ pending = {}
    /\ result' = RemoveEmpty(result)
    /\ pc' = "escape"
    /\ UNCHANGED <<input_text, normalized_text, variables, pending, shown, detected>>

\* double the quotes, wrap, clean up, return result
EscapeAndReturn ==
    /\ pc = "escape"
    /\ result' = EscapeWrapClean(result)
    /\ pc' = "returned"
    /\ UNCHANGED <<input_text, normalized_text, variables, pending, shown, detected>>

NextFormat == Detect \/ Substitute \/ HandleEmpty \/ EscapeAndReturn

InitFormat == Start(Concats(FormatChars, MaxFormatLen), "called")
SpecFormat == InitFormat /\ [][NextFormat]_vars

InitDetect == Start(Concats(DetectPieces, MaxDetectPieces), "called")
SpecDetect == InitDetect /\ [][NextFormat]_vars

InitOrder == Start(Concats(OrderPieces, MaxOrderPieces), "called")
SpecOrder == InitOrder /\ [][NextFormat]_vars

-----------------------------------------------------------------------------
(* The "Format JSON" button *)

\* if process_button: validate; refuse, or call format_for_uipath
PressButton ==
    /\ pc = "idle"
    /\ IF validate_json_structure(input_text)
       THEN /\ pc' = "called"
            /\ shown' = shown
       ELSE /\ pc' = "refused"
            /\ shown' = "validation_error"
    /\ UNCHANGED <<input_text, normalized_text, variables, pending, result, detected>>

\* format_for_uipath has returned: show the result and the detected variables
\* (found in input_json, not in the normalized text)
Display ==
    /\ pc = "returned"
    /\ shown' = "result"
    /\ detected' = ToSet(FindAll(variable_pattern, input_text))
    /\ pc' = "displayed"
    /\ UNCHANGED <<input_text, normalized_text, variables, pending, result>>

Next ==
    \/ PressButton
    \/ Detect
    \/ Substitute
    \/ HandleEmpty
    \/ EscapeAndReturn
    \/ Display

Init == Start(Concats(ButtonPieces, MaxButtonPieces), "idle")
Spec == Init /\ [][Next]_vars

-----------------------------------------------------------------------------
(* What the properties below are stated with *)

\* the number of quote characters of t
RECURSIVE CountQuotes(_)
CountQuotes(t) ==
    IF Len(t) = 0 THEN 0
    ELSE (IF Head(t) = QUOTE THEN 1 ELSE 0) + CountQuotes(Tail(t))

\* the positions at which the text w stands in t
Occurrences(w, t) == {i \in 1..Len(t) : StartsWith(t, i, w)}

\* t read as a host-language expression: the characters outside every string
\* literal.  A literal opens at a quote; inside it a doubled quote is an
\* escaped quote character and a single quote closes it.
RECURSIVE HostCode(_, _, _)
HostCode(t, i, inLiteral) ==
    IF i > Len(t) THEN <<>>
    ELSE IF ~inLiteral
         THEN IF t[i] = QUOTE THEN HostCode(t, i + 1, TRUE)
              ELSE <<t[i]>> \o HostCode(t, i + 1, FALSE)
    ELSE IF t[i] # QUOTE THEN HostCode(t, i + 1, TRUE)
    ELSE IF i + 1 <= Len(t) /\ t[i + 1] = QUOTE THEN HostCode(t, i + 2, TRUE)
    ELSE HostCode(t, i + 1, FALSE)

\* " + X + "
Spliced(X) == <<" ", "+", " ">> \o X \o <<" ", "+", " ">>
\* the concatenation form of X as the output holds it
ConcatForm(X) == <<QUOTE, QUOTE>> \o Spliced(X) \o <<QUOTE, QUOTE>>

\* the identifier grammar: a letter or underscore, letters, digits or
\* underscores, then suffixes: a dot, one or more of [A-Za-z0-9_], and
\* optionally ()
Identifier ==
    <<Chr(IdentStart), Star(<<Chr(IdentChar)>>),
      Star(<<Chr({"."}), Chr(IdentChar), Star(<<Chr(IdentChar)>>),
             Opt(<<Chr({"("}), Chr({")"})>>)>>)>>
IsIdentifier(v) == Run(Identifier \o <<AtEnd>>, v, 1, NoCaps).ok

\* an identifier in a value position: colon, optional whitespace, identifier,
\* optional whitespace, one of , } ]
ValueSlotIdentifier ==
    <<Chr({":"}), Star(<<Chr(WhiteSpace)>>)>> \o Identifier
    \o <<Star(<<Chr(WhiteSpace)>>), Ahead(Terminator)>>

\* position p of t lies inside a quoted span: an odd number of quotes before
\* it and a closing quote after it
InsideQuotes(t, p) ==
    /\ CountQuotes(SubSeq(t, 1, p - 1)) % 2 = 1
    /\ \E j \in p..Len(t) : t[j] = QUOTE

\* every maximal run of quote characters of t has even length
RECURSIVE EvenQuoteRuns(_, _)
EvenQuoteRuns(t, run) ==
    IF Len(t) = 0 THEN run % 2 = 0
    ELSE IF Head(t) = QUOTE THEN EvenQuoteRuns(Tail(t), run + 1)
    ELSE run % 2 = 0 /\ EvenQuoteRuns(Tail(t), 0)

\* an opening brace with a closing brace after it
MatchedBraces(t) == \E i, j \in 1..Len(t) : i < j /\ t[i] = "{" /\ t[j] = "}"

\* the names substituted one after the other, in one fixed order
RECURSIVE SubstituteAll(_, _)
SubstituteAll(names, t) ==
    IF names = {} THEN t
    ELSE LET v == CHOOSE x \in names : TRUE
         IN SubstituteAll(names \ {v}, SubstituteVar(v, t))

\* the number of value-position occurrences of var in t
SlotCount(var, t) == Len(Matches(VarInContext(var), t, 1))

JsonKeywords == {<<"t","r","u","e">>, <<"f","a","l","s","e">>, <<"n","u","l","l">>}

-----------------------------------------------------------------------------
(* The properties *)

\* C1: when the input holds bare identifiers in value slots (and no quoted
\* text at all), the returned text, read as a host-language expression, has
\* each of them outside every string literal, joined by ' + ' on both sides.
C1_IdentifierOutsideLiteral ==
    (pc = "returned" /\ ~In(QUOTE, input_text))
        => \A X \in ToSet(variables) :
              Occurrences(Spliced(X), HostCode(result, 1, FALSE)) # {}

\* C2: substitution completeness: every value-position occurrence of every
\* detected identifier is in the returned text in its concatenation form, and
\* the returned text holds no identifier in a value position.
C2_SubstitutionComplete ==
    pc = "returned"
        => /\ \A X \in ToSet(variables) :
                 Cardinality(Occurrences(ConcatForm(X), result))
                    >= SlotCount(X, normalized_text)
           /\ Matches(ValueSlotIdentifier, result, 1) = <<>>

\* C3: no-variable passthrough: with no variable detected, the returned text
\* is a quote, the normalized input with every quote doubled, and a quote.
C3_NoVariablePassthrough ==
    (pc = "returned" /\ variables = <<>>)
        => result = Wrap(DoubleQuotes(normalized_text))

\* C4: quote doubling: the returned text, without its two outer quotes, holds
\* exactly twice the quotes of the text before the doubling (or, reading the
\* "normalized pre-wrap text" as normalized_text, twice the quotes of that).
C4_QuotesDoubled ==
    [][(pc = "escape" /\ pc' = "returned")
          => \/ CountQuotes(result') - 2 = 2 * CountQuotes(result)
             \/ CountQuotes(result') - 2 = 2 * CountQuotes(normalized_text)]_vars

C6_NoDetectionInsideQuotes ==
    pc \in {"loop", "escape", "returned"}
        => \A n \in 1..Len(Matches(variable_pattern, normalized_text, 1)) :
              ~InsideQuotes(normalized_text,
                            Matches(variable_pattern, normalized_text, 1)[n].caps[1][1])

\* C7: every detected token conforms to the identifier grammar.
C7_DetectedAreIdentifiers ==
    pc \in {"loop", "escape", "returned"}
        => \A v \in ToSet(variables) : IsIdentifier(v)

\* C8: the button refuses exactly the inputs that neither parse as strict
\* JSON nor hold an opening brace with a closing brace after it.
C8_RefusedIffUnstructured ==
    pc # "idle"
        => ((pc = "refused") <=> ~(JsonLoads(input_text) \/ MatchedBraces(input_text)))

\* C9: the order in which the loop visits the detected names does not matter:
\* whatever names it has visited, in whatever order, result is the same text,
\* and no substitution made so far has added or removed a value-position
\* occurrence of a name still to be visited.
C9_OrderIndependent ==
    pc = "loop"
        => /\ result = SubstituteAll(ToSet(variables) \ pending, normalized_text)
           /\ \A v \in pending : SlotCount(v, result) = SlotCount(v, normalized_text)

\* C9's case: the loop has visited two or more distinct names
C9_Witness ==
    /\ pc = "loop"
    /\ pending = {}
    /\ Cardinality(ToSet(variables)) >= 2
    /\ Len(variables) >= 3

\* C10: a value slot holding true, false or null is not a detected variable.
C10_LiteralsNotVariables ==
    pc \in {"loop", "escape", "returned"}
        => ToSet(variables) \cap JsonKeywords = {}

====
